---- MODULE Spec2Model ----
(***************************************************************************)
(* Model of scripts/extract_urls_from_dir.py: the URL extractor that scans *)
(* the .txt files of a directory, matches URLs with the strict or the      *)
(* lenient regular expression, accumulates the URL -> files occurrence     *)
(* index and writes it as a plain list or as a JSON occurrence table.      *)
(*                                                                         *)
(* Text is a sequence of code points (naturals), file content and output   *)
(* are sequences of bytes.  Positions are 1-based; an "end" is the index   *)
(* one past the last character of a match, and 0 means "no match".         *)
(***************************************************************************)
EXTENDS Naturals, Sequences, FiniteSets

VARIABLES
    input_exists,  \* whether os.listdir(input_dir) can list the directory
    dir,           \* directory entries: file name -> [bytes, readable]
    output_file,   \* the output_file argument (a name)
    use_lenient,   \* the use_lenient argument
    pc,            \* position of extract_urls_from_directory
    order,         \* the order os.listdir returned in the current run
    listing,       \* entries of the for loop of line 83 still to visit
    occurrences,   \* the dict of line 77, in insertion order
    data,          \* the list `data` of line 101
    out,           \* the output target on disk: [exists, content]
    out_opens,     \* how many times the output target was opened for writing
    diag,          \* lines printed to standard output
    run,           \* number of the current invocation
    history,       \* output contents left by the finished invocations
    raw,           \* matcher harness: bytes of one file
    content,       \* matcher harness: the text f.read() returns for raw
    found_strict,  \* matcher harness: URL_REGEX.findall(content)
    found_lenient, \* matcher harness: LENIENT_URL_REGEX.findall(content)
    mpc            \* matcher harness: position

runVars == <<input_exists, dir, output_file, use_lenient, pc, order, listing,
             occurrences, data, out, out_opens, diag, run, history>>
matchVars == <<raw, content, found_strict, found_lenient, mpc>>
vars == <<runVars, matchVars>>

----------------------------------------------------------------------------
(* Strings *)

Range(s) == {s[i] : i \in DOMAIN s}

Min(a, b) == IF a < b THEN a ELSE b

\* Python's str ordering: lexicographic by code point, a proper prefix first.
StrLess(a, b) ==
    \E k \in 1..(Min(Len(a), Len(b)) + 1) :
        /\ \A j \in 1..(k - 1) : a[j] = b[j]
        /\ \/ k > Len(a) /\ k <= Len(b)
           \/ k <= Len(a) /\ k <= Len(b) /\ a[k] < b[k]

\* sorted(S) for a collection of distinct strings.
RECURSIVE Sorted(_)
Sorted(S) ==
    IF S = {} THEN <<>>
    ELSE LET m == CHOOSE x \in S : \A y \in S \ {x} : StrLess(x, y)
         IN <<m>> \o Sorted(S \ {m})

\* str.lower(), for the characters that can take part in a suffix test.
LowerChar(c) == IF c \in 65..90 THEN c + 32 ELSE c

Lower(s) == [i \in DOMAIN s |-> LowerChar(s[i])]

EndsWith(s, suffix) ==
    /\ Len(s) >= Len(suffix)
    /\ SubSeq(s, Len(s) - Len(suffix) + 1, Len(s)) = suffix

\* "".join(ss); split in halves to keep the evaluation shallow.
RECURSIVE Concat(_)
Concat(ss) ==
    IF Len(ss) = 0 THEN <<>>
    ELSE IF Len(ss) = 1 THEN ss[1]
    ELSE LET h == Len(ss) \div 2
         IN Concat(SubSeq(ss, 1, h)) \o Concat(SubSeq(ss, h + 1, Len(ss)))

\* os.path.join(input_dir, filename) on a POSIX system, filename relative.
JoinPath(d, name) ==
    IF d = <<>> \/ d[Len(d)] = 47 THEN d \o name ELSE d \o <<47>> \o name

----------------------------------------------------------------------------
(* open(file_path, "r", encoding="utf-8", errors="ignore").read() *)

IsCont(b) == b \in 128..191

\* The UTF-8 decoder with the "ignore" error handler: a well-formed sequence
\* gives its code point, the bytes of a malformed sequence give nothing.
RECURSIVE Utf8DecodeIgnore(_, _)
Utf8DecodeIgnore(b, i) ==
    IF i > Len(b) THEN <<>>
    ELSE LET b0 == b[i]
             Has(k) == i + k <= Len(b)
             At(k) == b[i + k]
             Lo2 == IF b0 = 224 THEN 160 ELSE IF b0 = 240 THEN 144 ELSE 128
             Hi2 == IF b0 = 237 THEN 159 ELSE IF b0 = 244 THEN 143 ELSE 191
         IN IF b0 < 128 THEN <<b0>> \o Utf8DecodeIgnore(b, i + 1)
            ELSE IF b0 \in 194..223 THEN
                IF Has(1) /\ IsCont(At(1))
                THEN <<(b0 - 192) * 64 + (At(1) - 128)>> \o Utf8DecodeIgnore(b, i + 2)
                ELSE Utf8DecodeIgnore(b, i + 1)
            ELSE IF b0 \in 224..239 THEN
                IF ~(Has(1) /\ At(1) \in Lo2..Hi2) THEN Utf8DecodeIgnore(b, i + 1)
                ELSE IF ~(Has(2) /\ IsCont(At(2))) THEN Utf8DecodeIgnore(b, i + 2)
                ELSE <<(b0 - 224) * 4096 + (At(1) - 128) * 64 + (At(2) - 128)>>
                         \o Utf8DecodeIgnore(b, i + 3)
            ELSE IF b0 \in 240..244 THEN
                IF ~(Has(1) /\ At(1) \in Lo2..Hi2) THEN Utf8DecodeIgnore(b, i + 1)
                ELSE IF ~(Has(2) /\ IsCont(At(2))) THEN Utf8DecodeIgnore(b, i + 2)
                ELSE IF ~(Has(3) /\ IsCont(At(3))) THEN Utf8DecodeIgnore(b, i + 3)
                ELSE <<(b0 - 240) * 262144 + (At(1) - 128) * 4096
                           + (At(2) - 128) * 64 + (At(3) - 128)>>
                         \o Utf8DecodeIgnore(b, i + 4)
            ELSE Utf8DecodeIgnore(b, i + 1)

\* Text mode with newline=None: "\r\n" and a lone "\r" are read as "\n".
RECURSIVE TranslateNewlines(_, _)
TranslateNewlines(t, i) ==
    IF i > Len(t) THEN <<>>
    ELSE IF t[i] = 13 THEN
        <<10>> \o TranslateNewlines(t, IF i < Len(t) /\ t[i + 1] = 10 THEN i + 2 ELSE i + 1)
    ELSE <<t[i]>> \o TranslateNewlines(t, i + 1)

\* The decoder `replace` would have been: one U+FFFD for each malformed byte.
ReadTextReplace(bytes) ==
    LET RECURSIVE Rep(_)
        Rep(i) ==
            IF i > Len(bytes) THEN <<>>
            ELSE IF bytes[i] < 128 THEN <<bytes[i]>> \o Rep(i + 1)
            ELSE IF bytes[i] \in 194..223 /\ i < Len(bytes) /\ IsCont(bytes[i + 1])
                 THEN <<(bytes[i] - 192) * 64 + (bytes[i + 1] - 128)>> \o Rep(i + 2)
            ELSE <<65533>> \o Rep(i + 1)
    IN TranslateNewlines(Rep(1), 1)

\* f.read() of line 89 on a file opened as in line 88.
ReadText(bytes) == TranslateNewlines(Utf8DecodeIgnore(bytes, 1), 1)

\* What open(output_file, "w", encoding="utf-8") writes for a str.
Utf8EncodeChar(c) ==
    IF c < 128 THEN <<c>>
    ELSE IF c < 2048 THEN <<192 + (c \div 64), 128 + (c % 64)>>
    ELSE IF c < 65536 THEN
        <<224 + (c \div 4096), 128 + ((c \div 64) % 64), 128 + (c % 64)>>
    ELSE <<240 + (c \div 262144), 128 + ((c \div 4096) % 64),
           128 + ((c \div 64) % 64), 128 + (c % 64)>>

Utf8Encode(s) == Concat([i \in DOMAIN s |-> Utf8EncodeChar(s[i])])

----------------------------------------------------------------------------
(* The two regular expressions, compiled with re.IGNORECASE *)

\* \s on str patterns.
IsSpace(c) ==
    \/ c \in {9, 10, 11, 12, 13, 28, 29, 30, 31, 32, 133, 160, 5760,
              8232, 8233, 8239, 8287, 12288}
    \/ c \in 8192..8202

\* STRICT_BODY and the path's class: [^\s"'<>]
IsBodyChar(c) == ~IsSpace(c) /\ c \notin {34, 39, 60, 62}

\* [A-Za-z] under IGNORECASE (which adds the letters that case-fold into it).
IsAlpha(c) == c \in 65..90 \/ c \in 97..122 \/ c \in {304, 305, 383, 8490}

\* [A-Za-z0-9.-] under IGNORECASE.
IsDomainChar(c) == IsAlpha(c) \/ c \in 48..57 \/ c \in {45, 46}

\* A literal of the pattern against a character of the text, ignoring case.
LitEq(x, lit) ==
    \/ x = lit
    \/ lit \in 97..122 /\ x = lit - 32
    \/ lit = 115 /\ x = 383

LitAt(t, i, lits) ==
    /\ i + Len(lits) - 1 <= Len(t)
    /\ \A k \in 1..Len(lits) : LitEq(t[i + k - 1], lits[k])

\* End of the longest run of characters of a class starting at i.
BodyEnd(t, i) ==
    CHOOSE e \in i..(Len(t) + 1) :
        /\ \A k \in i..(e - 1) : IsBodyChar(t[k])
        /\ e = Len(t) + 1 \/ ~IsBodyChar(t[e])

DomainRunEnd(t, i) ==
    CHOOSE e \in i..(Len(t) + 1) :
        /\ \A k \in i..(e - 1) : IsDomainChar(t[k])
        /\ e = Len(t) + 1 \/ ~IsDomainChar(t[e])

AlphaRunEnd(t, i) ==
    CHOOSE e \in i..(Len(t) + 1) :
        /\ \A k \in i..(e - 1) : IsAlpha(t[k])
        /\ e = Len(t) + 1 \/ ~IsAlpha(t[e])

\* https?:// at i.
HttpEnd(t, i) ==
    IF ~LitAt(t, i, <<104, 116, 116, 112>>) THEN 0
    ELSE IF LitAt(t, i + 4, <<115, 58, 47, 47>>) THEN i + 8
    ELSE IF LitAt(t, i + 4, <<58, 47, 47>>) THEN i + 7
    ELSE 0

\* STRICT_SCHEME: (?:https?://|www\.)
StrictSchemeEnd(t, i) ==
    IF HttpEnd(t, i) # 0 THEN HttpEnd(t, i)
    ELSE IF LitAt(t, i, <<119, 119, 119, 46>>) THEN i + 4
    ELSE 0

\* URL_REGEX matched at position i.
StrictMatchEnd(t, i) ==
    LET s == StrictSchemeEnd(t, i)
    IN IF s = 0 THEN 0
       ELSE IF BodyEnd(t, s) > s THEN BodyEnd(t, s) ELSE 0

\* The non-empty alternative of LENIENT_SCHEME: https?://|www\.|ftp://
LenientSchemeEnd(t, i) ==
    IF StrictSchemeEnd(t, i) # 0 THEN StrictSchemeEnd(t, i)
    ELSE IF LitAt(t, i, <<102, 116, 112, 58, 47, 47>>) THEN i + 6
    ELSE 0

\* LENIENT_DOMAIN from d: the greedy [A-Za-z0-9.-]+ gives characters back
\* until a "." followed by at least two letters is found; the label {2,6}
\* then takes up to six of them.
LenientDomainEnd(t, d) ==
    LET r == DomainRunEnd(t, d)
        Q == {q \in (d + 1)..(r - 1) : t[q] = 46 /\ AlphaRunEnd(t, q + 1) >= q + 3}
    IN IF Q = {} THEN 0
       ELSE LET q == CHOOSE x \in Q : \A y \in Q : y <= x
            IN Min(AlphaRunEnd(t, q + 1), q + 7)

\* A variant of the lenient pattern without its path.
LenientPathEndNone(t, e) == e

\* LENIENT_PATH from e: (?:/[^\s"'<>]*)?
LenientPathEnd(t, e) ==
    IF e <= Len(t) /\ t[e] = 47 THEN BodyEnd(t, e + 1) ELSE e

\* LENIENT_URL_REGEX matched at position i: the scheme is tried first, and
\* dropped when no domain follows it.
LenientMatchEnd(t, i) ==
    LET s == LenientSchemeEnd(t, i)
        withScheme == IF s = 0 THEN 0 ELSE LenientDomainEnd(t, s)
    IN IF withScheme # 0 THEN LenientPathEnd(t, withScheme)
       ELSE IF LenientDomainEnd(t, i) # 0 THEN LenientPathEnd(t, LenientDomainEnd(t, i))
       ELSE 0

MatchEnd(t, i, lenient) ==
    IF lenient THEN LenientMatchEnd(t, i) ELSE StrictMatchEnd(t, i)

\* regex.findall(content): the non-overlapping matches, left to right.
RECURSIVE FindAllFrom(_, _, _)
FindAllFrom(t, i, lenient) ==
    IF i > Len(t) THEN <<>>
    ELSE LET e == MatchEnd(t, i, lenient)
         IN IF e = 0 THEN FindAllFrom(t, i + 1, lenient)
            ELSE <<SubSeq(t, i, e - 1)>> \o FindAllFrom(t, e, lenient)

FindAll(t, lenient) == FindAllFrom(t, 1, lenient)

----------------------------------------------------------------------------
(* The occurrence index and the two output shapes *)

\* A variant with a list of matches in place of the dict of sets.
AddOccurrenceAppend(occ, u, path) == Append(occ, [url |-> u, files |-> {path}])

\* A variant that assigns the set: occurrences[u] = {file_path}.
AddOccurrenceOverwrite(occ, u, path) ==
    IF \E i \in DOMAIN occ : occ[i].url = u
    THEN [i \in DOMAIN occ |->
             IF occ[i].url = u THEN [occ[i] EXCEPT !.files = {path}] ELSE occ[i]]
    ELSE Append(occ, [url |-> u, files |-> {path}])

\* A variant that records a file only for a URL it sees for the first time.
AddOccurrenceFirstOnly(occ, u, path) ==
    IF \E i \in DOMAIN occ : occ[i].url = u
    THEN occ
    ELSE Append(occ, [url |-> u, files |-> {path}])

\* occurrences.setdefault(u, set()).add(file_path), on the insertion-ordered dict.
AddOccurrence(occ, u, path) ==
    IF \E i \in DOMAIN occ : occ[i].url = u
    THEN [i \in DOMAIN occ |->
             IF occ[i].url = u
             THEN [occ[i] EXCEPT !.files = @ \cup {path}]
             ELSE occ[i]]
    ELSE Append(occ, [url |-> u, files |-> {path}])

\* The loop of lines 93-94 over found_urls.
RECURSIVE AddAll(_, _, _)
AddAll(occ, found, path) ==
    IF found = <<>> THEN occ
    ELSE AddAll(AddOccurrence(occ, Head(found), path), Tail(found), path)

Keys(occ) == {occ[i].url : i \in DOMAIN occ}

\* A variant that emits one record for a URL, whatever the number of its files.
RecordsOfFirstFile(entry) == <<[url |-> entry.url, file |-> Sorted(entry.files)[1]]>>

\* The inner loop of lines 103-104 for one URL.
RecordsOf(entry) ==
    LET fs == Sorted(entry.files)
    IN [j \in DOMAIN fs |-> [url |-> entry.url, file |-> fs[j]]]

\* Lines 101-104: the list `data`, URL by URL as occurrences.items() gives them.
Flatten(occ) == Concat([i \in DOMAIN occ |-> RecordsOf(occ[i])])

HexDigit(n) == IF n < 10 THEN 48 + n ELSE 87 + n

\* json's string encoder with ensure_ascii=False.
JsonEscape(c) ==
    IF c = 34 THEN <<92, 34>>
    ELSE IF c = 92 THEN <<92, 92>>
    ELSE IF c = 10 THEN <<92, 110>>
    ELSE IF c = 13 THEN <<92, 114>>
    ELSE IF c = 9 THEN <<92, 116>>
    ELSE IF c = 8 THEN <<92, 98>>
    ELSE IF c = 12 THEN <<92, 102>>
    ELSE IF c < 32 THEN <<92, 117, 48, 48, HexDigit(c \div 16), HexDigit(c % 16)>>
    ELSE <<c>>

JsonString(s) == <<34>> \o Concat([i \in DOMAIN s |-> JsonEscape(s[i])]) \o <<34>>

\* One {"url": ..., "file": ...} object at indent level 1 of indent=2.
JsonObject(rec) ==
    <<32, 32, 123, 10>>
    \o <<32, 32, 32, 32, 34, 117, 114, 108, 34, 58, 32>> \o JsonString(rec.url)
    \o <<44, 10>>
    \o <<32, 32, 32, 32, 34, 102, 105, 108, 101, 34, 58, 32>> \o JsonString(rec.file)
    \o <<10, 32, 32, 125>>

\* json.dump(data, out, ensure_ascii=False, indent=2), as text.
JsonDump(d) ==
    IF d = <<>> THEN <<91, 93>>
    ELSE <<91, 10>>
         \o Concat([i \in DOMAIN d |->
                (IF i = 1 THEN <<>> ELSE <<44, 10>>) \o JsonObject(d[i])])
         \o <<10, 93>>

\* A variant that writes the keys as the dict holds them.
TextDumpUnsorted(occ) == Concat([i \in DOMAIN occ |-> occ[i].url \o <<10>>])

\* Lines 113-114: for url in sorted(occurrences.keys()): out.write(url + "\n")
TextDump(occ) ==
    LET ks == Sorted(Keys(occ))
    IN Concat([i \in DOMAIN ks |-> ks[i] \o <<10>>])

----------------------------------------------------------------------------
(* Inputs of the model *)

\* Most entries a directory holds.
MaxFiles == 2
\* Invocations of the script on the same input.
MaxRuns == 2

\* The input_dir argument: "t".
InputDir == <<116>>

\* Entry names: "a.txt", "b.TXT", "c.pdf", "d.txt".
FileNames ==
    {<<97, 46, 116, 120, 116>>, <<98, 46, 84, 88, 84>>, <<99, 46, 112, 100, 102>>,
     <<100, 46, 116, 120, 116>>}

\* File contents (bytes):
\*   "http://b.cc http://b.cc"   the same URL twice
\*   "www.c.dd http://a.bb"      two URLs, the later one sorting first
\*   "http://a.b" 0xFF "b e.ff"  a malformed byte inside a URL, and a bare domain
\*   "x"                         no URL
SampleBytes ==
    { <<104, 116, 116, 112, 58, 47, 47, 98, 46, 99, 99, 32,
        104, 116, 116, 112, 58, 47, 47, 98, 46, 99, 99>>,
      <<119, 119, 119, 46, 99, 46, 100, 100, 32,
        104, 116, 116, 112, 58, 47, 47, 97, 46, 98, 98>>,
      <<104, 116, 116, 112, 58, 47, 47, 97, 46, 98, 255, 98, 32, 101, 46, 102, 102>>,
      <<120>> }

\* Output names: "u.txt", "u.JSON".
OutputNames == {<<117, 46, 116, 120, 116>>, <<117, 46, 74, 83, 79, 78>>}

\* The output target before the first run: absent, or holding "x".
NoFile == [exists |-> FALSE, content |-> <<>>]
StaleFile == [exists |-> TRUE, content |-> <<120>>]

\* filename.lower().endswith(".txt"), line 84.
Eligible(name) == EndsWith(Lower(name), <<46, 116, 120, 116>>)

\* output_file.lower().endswith(".json"), line 99.
IsJson(name) == EndsWith(Lower(name), <<46, 106, 115, 111, 110>>)

\* An entry that cannot be opened or read (permissions, I/O error, a directory
\* named *.txt); what it holds, "www.z.zz", is never seen.
Unreadable == [bytes |-> <<119, 119, 119, 46, 122, 46, 122, 122>>, readable |-> FALSE]

Entries(name) ==
    IF Eligible(name)
    THEN {[bytes |-> b, readable |-> TRUE] : b \in SampleBytes} \cup {Unreadable}
    ELSE {[bytes |-> <<>>, readable |-> TRUE]}

Dirs ==
    UNION {{d \in [N -> UNION {Entries(n) : n \in N}] : \A n \in N : d[n] \in Entries(n)} :
           N \in {M \in SUBSET FileNames : Cardinality(M) <= MaxFiles}}

\* The orders os.listdir may return the entries of a directory in.
Listings(d) ==
    LET N == DOMAIN d
    IN {o \in [1..Cardinality(N) -> N] : \A i, j \in DOMAIN o : o[i] = o[j] => i = j}

Path(name) == JoinPath(InputDir, name)

----------------------------------------------------------------------------
(* extract_urls_from_directory *)

MatchIdle ==
    /\ raw = <<>> /\ content = <<>> /\ found_strict = <<>> /\ found_lenient = <<>>
    /\ mpc = "idle"

Init ==
    /\ input_exists \in BOOLEAN
    /\ dir \in (IF input_exists THEN Dirs ELSE {<<>>})
    /\ output_file \in OutputNames
    /\ use_lenient \in BOOLEAN
    /\ pc = "start"
    /\ order = <<>>
    /\ listing = <<>>
    /\ occurrences = <<>>
    /\ data = <<>>
    /\ out \in {NoFile, StaleFile}
    /\ out_opens = 0
    /\ diag = <<>>
    /\ run = 1
    /\ history = <<>>
    /\ MatchIdle

args == <<input_exists, dir, output_file, use_lenient>>

\* Line 83: os.listdir(input_dir) returns the entries in some order.
ListDir ==
    /\ pc = "start"
    /\ input_exists
    /\ \E o \in Listings(dir) : order' = o /\ listing' = o
    /\ pc' = "scan"
    /\ UNCHANGED <<args, occurrences, data, out, out_opens, diag, run, history, matchVars>>

\* A variant that opens the output target before listing the directory.
ListDirFailsAfterOpen ==
    /\ pc = "start"
    /\ ~input_exists
    /\ out' = [exists |-> TRUE, content |-> <<>>]
    /\ out_opens' = out_opens + 1
    /\ pc' = "error"
    /\ UNCHANGED <<args, order, listing, occurrences, data, diag, run, history, matchVars>>

\* Line 83: os.listdir raises (FileNotFoundError, PermissionError, ...); nothing
\* catches it and the run ends with the traceback.
ListDirFails ==
    /\ pc = "start"
    /\ ~input_exists
    /\ pc' = "error"
    /\ UNCHANGED <<args, order, listing, occurrences, data, out, out_opens, diag, run,
                   history, matchVars>>

\* Line 84: an entry whose name does not end in .txt is passed over.
SkipEntry ==
    /\ pc = "scan"
    /\ listing # <<>>
    /\ ~Eligible(Head(listing))
    /\ listing' = Tail(listing)
    /\ UNCHANGED <<args, pc, order, occurrences, data, out, out_opens, diag, run, history,
                   matchVars>>

\* Lines 85-94 for one file that opens and reads.
ScanFile ==
    /\ pc = "scan"
    /\ listing # <<>>
    /\ Eligible(Head(listing))
    /\ dir[Head(listing)].readable
    /\ LET file_path == Path(Head(listing))
           text == ReadText(dir[Head(listing)].bytes)
           found_urls == FindAll(text, use_lenient)
       IN occurrences' = AddAll(occurrences, found_urls, file_path)
    /\ listing' = Tail(listing)
    /\ UNCHANGED <<args, pc, order, data, out, out_opens, diag, run, history, matchVars>>

\* A variant in which a read failure ends the loop.
ScanFileFailsAborts ==
    /\ pc = "scan"
    /\ listing # <<>>
    /\ Eligible(Head(listing))
    /\ ~dir[Head(listing)].readable
    /\ diag' = Append(diag, [kind |-> "could_not_read", file |-> Path(Head(listing)),
                             count |-> 0])
    /\ listing' = <<>>
    /\ UNCHANGED <<args, pc, order, occurrences, data, out, out_opens, run, history,
                   matchVars>>

\* Lines 87-88, 95-96 for one file whose open or read raises OSError.
ScanFileFails ==
    /\ pc = "scan"
    /\ listing # <<>>
    /\ Eligible(Head(listing))
    /\ ~dir[Head(listing)].readable
    /\ diag' = Append(diag, [kind |-> "could_not_read", file |-> Path(Head(listing)),
                             count |-> 0])
    /\ listing' = Tail(listing)
    /\ UNCHANGED <<args, pc, order, occurrences, data, out, out_opens, run, history,
                   matchVars>>

\* Lines 99-109: the occurrence table.
WriteJson ==
    /\ pc = "scan"
    /\ listing = <<>>
    /\ IsJson(output_file)
    /\ LET records == Flatten(occurrences)
       IN /\ data' = records
          /\ out' = [exists |-> TRUE, content |-> Utf8Encode(JsonDump(records))]
          /\ diag' = Append(diag, [kind |-> "url_occurrences", file |-> output_file,
                                   count |-> Len(records)])
    /\ out_opens' = out_opens + 1
    /\ pc' = "done"
    /\ UNCHANGED <<args, order, listing, occurrences, run, history, matchVars>>

\* A variant that returns early, with a note, when nothing was found.
WriteTextSkipsEmpty ==
    /\ pc = "scan"
    /\ listing = <<>>
    /\ ~IsJson(output_file)
    /\ IF occurrences = <<>>
       THEN /\ diag' = Append(diag, [kind |-> "no_files_found", file |-> InputDir,
                                     count |-> 0])
            /\ UNCHANGED <<out, out_opens>>
       ELSE /\ out' = [exists |-> TRUE, content |-> Utf8Encode(TextDump(occurrences))]
            /\ out_opens' = out_opens + 1
            /\ diag' = Append(diag, [kind |-> "unique_urls", file |-> output_file,
                                     count |-> Len(occurrences)])
    /\ pc' = "done"
    /\ UNCHANGED <<args, order, listing, occurrences, data, run, history, matchVars>>

\* Lines 110-116: the unique list.
WriteText ==
    /\ pc = "scan"
    /\ listing = <<>>
    /\ ~IsJson(output_file)
    /\ out' = [exists |-> TRUE, content |-> Utf8Encode(TextDump(occurrences))]
    /\ out_opens' = out_opens + 1
    /\ diag' = Append(diag, [kind |-> "unique_urls", file |-> output_file,
                             count |-> Len(occurrences)])
    /\ pc' = "done"
    /\ UNCHANGED <<args, order, listing, occurrences, data, run, history, matchVars>>

\* Lines 118-129 once more: the script is run again on the same arguments and
\* the same directory; what the previous run left in the output is kept aside.
Rerun ==
    /\ pc = "done"
    /\ run < MaxRuns
    /\ history' = Append(history, out.content)
    /\ run' = run + 1
    /\ pc' = "start"
    /\ order' = <<>>
    /\ listing' = <<>>
    /\ occurrences' = <<>>
    /\ data' = <<>>
    /\ diag' = <<>>
    /\ UNCHANGED <<args, out, out_opens, matchVars>>

Next ==
    \/ ListDir
    \/ ListDirFails
    \/ SkipEntry
    \/ ScanFile
    \/ ScanFileFails
    \/ WriteJson
    \/ WriteText
    \/ Rerun

Spec == Init /\ [][Next]_vars

----------------------------------------------------------------------------
(* Properties of a run *)

Done == pc = "done"

\* The eligible files of the directory that can be read.
ReadableFiles == {n \in DOMAIN dir : Eligible(n) /\ dir[n].readable}

UnreadableFiles == {n \in DOMAIN dir : Eligible(n) /\ ~dir[n].readable}

\* The distinct strings the chosen pattern matches in file n.
MatchesIn(n) == Range(FindAll(ReadText(dir[n].bytes), use_lenient))

\* Every (url, path) such that url is matched at least once in a readable file.
ExpectedPairs == UNION {{<<u, Path(n)>> : u \in MatchesIn(n)} : n \in ReadableFiles}

ExpectedUrls == UNION {MatchesIn(n) : n \in ReadableFiles}

IndexPairs(occ) == UNION {{<<occ[i].url, f>> : f \in occ[i].files} : i \in DOMAIN occ}

\* The lines of a text file, each without its newline.
RECURSIVE SplitLines(_)
SplitLines(b) ==
    IF b = <<>> THEN <<>>
    ELSE LET e == CHOOSE x \in 1..(Len(b) + 1) :
                      /\ x = Len(b) + 1 \/ b[x] = 10
                      /\ \A k \in 1..(x - 1) : b[k] # 10
         IN <<SubSeq(b, 1, e - 1)>> \o SplitLines(SubSeq(b, e + 1, Len(b)))

RECURSIVE SumFiles(_)
SumFiles(occ) ==
    IF occ = <<>> THEN 0 ELSE Cardinality(Head(occ).files) + SumFiles(Tail(occ))

\* (url, file) of record a is not after (url, file) of record b.
PairLeq(a, b) ==
    \/ StrLess(a.url, b.url)
    \/ a.url = b.url /\ (a.file = b.file \/ StrLess(a.file, b.file))

LastDiag == diag[Len(diag)]

\* C1: the records of the occurrence table are non-decreasing by (url, file).
\* The code emits the URLs in the order the dict first saw them.
Claim_C1_SortedTable ==
    (Done /\ IsJson(output_file)) =>
        \A i \in 1..(Len(data) - 1) : PairLeq(data[i], data[i + 1])

\* C2: a second run on the same directory and arguments leaves byte-identical
\* output, whatever order the directory was listed in.
Claim_C2_SameOutputTwice ==
    (Done /\ run >= 2) => out.content = history[run - 1]

\* C3: in unique-list shape every distinct URL is written once, one per line,
\* in ascending code-point order (which UTF-8 keeps byte-wise), and the count
\* reported is the number of distinct URLs.
Thm_C3_UniqueList ==
    (Done /\ ~IsJson(output_file)) =>
        LET lines == SplitLines(out.content)
        IN /\ out.content = <<>> \/ out.content[Len(out.content)] = 10
           /\ {lines[i] : i \in DOMAIN lines} = {Utf8Encode(u) : u \in ExpectedUrls}
           /\ Len(lines) = Cardinality(ExpectedUrls)
           /\ \A i \in 1..(Len(lines) - 1) : StrLess(lines[i], lines[i + 1])
           /\ LastDiag.kind = "unique_urls"
           /\ LastDiag.count = Cardinality(ExpectedUrls)

\* A unique list of two URLs first seen in descending order, of which one was
\* matched more than once.
Wit_C3 ==
    /\ Done /\ ~IsJson(output_file)
    /\ Len(occurrences) >= 2
    /\ StrLess(occurrences[2].url, occurrences[1].url)
    /\ \E n \in ReadableFiles :
           Len(FindAll(ReadText(dir[n].bytes), use_lenient)) > Cardinality(MatchesIn(n))

\* C4: an unreadable file is reported, gives nothing to the index and does not
\* stop the scan: the index is the one of the readable files, and the output
\* is written.
Thm_C4_ReadFailureIsolated ==
    Done =>
        /\ IndexPairs(occurrences) = ExpectedPairs
        /\ \A n \in UnreadableFiles :
               \E i \in DOMAIN diag :
                   diag[i].kind = "could_not_read" /\ diag[i].file = Path(n)
        /\ out.exists /\ out_opens = run
        /\ LastDiag.kind \in {"unique_urls", "url_occurrences"}

\* A run that met an unreadable file and, after it, a file with a URL.
Wit_C4 ==
    /\ Done
    /\ \E i, j \in DOMAIN order :
           /\ i < j
           /\ order[i] \in UnreadableFiles
           /\ order[j] \in ReadableFiles
           /\ \E k \in DOMAIN occurrences : Path(order[j]) \in occurrences[k].files

\* C5: one record per (url, file) with at least one match, one line per URL.
Thm_C5_SetSemantics ==
    Done =>
        IF IsJson(output_file)
        THEN /\ \A i, j \in DOMAIN data : data[i] = data[j] => i = j
             /\ {<<data[i].url, data[i].file>> : i \in DOMAIN data} = ExpectedPairs
             /\ Len(data) = Cardinality(ExpectedPairs)
        ELSE LET lines == SplitLines(out.content)
             IN \A u \in ExpectedUrls :
                    Cardinality({i \in DOMAIN lines : lines[i] = Utf8Encode(u)}) = 1

\* A table whose only file matches the same URL twice.
Wit_C5 ==
    /\ Done /\ IsJson(output_file)
    /\ Cardinality(ReadableFiles) = 1
    /\ \E n \in ReadableFiles :
           /\ Len(FindAll(ReadText(dir[n].bytes), use_lenient)) = 2
           /\ Cardinality(MatchesIn(n)) = 1
    /\ Len(data) = 1

\* C6: when the directory cannot be listed the run ends in the error and the
\* output target is never opened, created or truncated.
Thm_C6_NoOutputWithoutDirectory ==
    ~input_exists =>
        /\ pc \in {"start", "error"}
        /\ out_opens = 0
        /\ out \in {NoFile, StaleFile}
        /\ data = <<>> /\ diag = <<>> /\ history = <<>>

\* The run has ended in the error, the earlier output still in place.
Wit_C6 == pc = "error" /\ ~input_exists /\ out = StaleFile

NoEligibleFile == \A n \in DOMAIN dir : ~Eligible(n)

EmptyOutput == IF IsJson(output_file) THEN <<91, 93>> ELSE <<>>

\* C7 as stated: an empty corpus gives an empty index, a valid empty output,
\* a successful end and a diagnostic saying that no files were found.
Claim_C7_NoFilesDiagnostic ==
    (Done /\ NoEligibleFile) =>
        /\ occurrences = <<>>
        /\ out = [exists |-> TRUE, content |-> EmptyOutput]
        /\ \E i \in DOMAIN diag : diag[i].kind = "no_files_found"

\* C7 as amended: an empty corpus gives an empty index, a valid empty output
\* and a successful end; the only line printed is the usual count line, with
\* count 0, and nothing says that no files were found.
Thm_C7_EmptyCorpus ==
    (Done /\ NoEligibleFile) =>
        /\ occurrences = <<>>
        /\ out = [exists |-> TRUE, content |-> EmptyOutput]
        /\ out_opens = run
        /\ diag = <<[kind |-> IF IsJson(output_file) THEN "url_occurrences"
                              ELSE "unique_urls",
                     file |-> output_file, count |-> 0]>>

\* A finished first run on a directory without any .txt file: an empty list.
Wit_C7 ==
    /\ Done /\ NoEligibleFile /\ run = 1
    /\ ~IsJson(output_file)
    /\ out = [exists |-> TRUE, content |-> <<>>]

\* C8: the record count reported is the sum of the occurrence-set sizes, is
\* at least the number of distinct URLs, and equals it iff every URL is in
\* exactly one file.
Thm_C8_CountRelation ==
    (Done /\ IsJson(output_file)) =>
        /\ LastDiag.kind = "url_occurrences"
        /\ LastDiag.count = Len(data)
        /\ LastDiag.count = SumFiles(occurrences)
        /\ LastDiag.count >= Cardinality(ExpectedUrls)
        /\ (LastDiag.count = Cardinality(ExpectedUrls)) <=>
               \A u \in ExpectedUrls :
                   Cardinality({n \in ReadableFiles : u \in MatchesIn(n)}) = 1

\* A table in which one URL is in two files: more records than URLs.
Wit_C8 ==
    /\ Done /\ IsJson(output_file)
    /\ \E i \in DOMAIN occurrences : Cardinality(occurrences[i].files) = 2
    /\ LastDiag.count > Len(occurrences)

\* The entries the loop of line 83 has gone through so far in this run.
Processed == {order[i] : i \in 1..(Len(order) - Len(listing))}

\* Those of them that were read.
ProcessedFiles == {n \in Processed : Eligible(n) /\ dir[n].readable}

\* C11: all along the scan loop, a string is a key iff it was matched in a
\* file already read; every key has a non-empty set; and the set is exactly
\* the paths of the files already read in which the string was matched.
Thm_C11_IndexInvariant ==
    (pc \in {"scan", "done"}) =>
        /\ \A i, j \in DOMAIN occurrences :
               occurrences[i].url = occurrences[j].url => i = j
        /\ Keys(occurrences) = UNION {MatchesIn(n) : n \in ProcessedFiles}
        /\ \A i \in DOMAIN occurrences :
               /\ occurrences[i].files # {}
               /\ occurrences[i].files =
                      {Path(n) : n \in {m \in ProcessedFiles :
                                           occurrences[i].url \in MatchesIn(m)}}

\* In the middle of the loop: a file that matched one URL twice has been read,
\* and the next file holds a URL that is not a key yet.
Wit_C11 ==
    /\ pc = "scan"
    /\ listing # <<>>
    /\ \E n \in ProcessedFiles :
           Len(FindAll(ReadText(dir[n].bytes), use_lenient)) > Cardinality(MatchesIn(n))
    /\ Head(listing) \in ReadableFiles
    /\ \E u \in MatchesIn(Head(listing)) : u \notin Keys(occurrences)

\* The matches of file n, as line 90 returns them.
FoundIn(n) == FindAll(ReadText(dir[n].bytes), use_lenient)

\* The index the loop of lines 83-96 builds from occ over the entries `names`.
RECURSIVE IndexOver(_, _)
IndexOver(occ, names) ==
    IF names = <<>> THEN occ
    ELSE IF Head(names) \in ReadableFiles
         THEN IndexOver(AddAll(occ, FoundIn(Head(names)), Path(Head(names))), Tail(names))
         ELSE IndexOver(occ, Tail(names))

\* What an index holds, whatever the order its keys were inserted in.
Contents(occ) == {<<occ[i].url, occ[i].files>> : i \in DOMAIN occ}

\* C12: the index is the same (same keys, same file sets) for every order the
\* files can be processed in, in every run; and passing the content of a file
\* through the pattern a second time leaves the index as it is.
Thm_C12_OrderIndependentIndex ==
    Done =>
        /\ \A o \in Listings(dir) : Contents(IndexOver(<<>>, o)) = Contents(occurrences)
        /\ \A n \in ReadableFiles :
               AddAll(occurrences, FoundIn(n), Path(n)) = occurrences

\* The end of a second run whose index holds a URL of two files and whose
\* keys would have been inserted in another order under another listing.
Wit_C12 ==
    /\ Done /\ run = 2
    /\ \E i \in DOMAIN occurrences : Cardinality(occurrences[i].files) = 2
    /\ \E o \in Listings(dir) :
           /\ IndexOver(<<>>, o) # occurrences
           /\ Contents(IndexOver(<<>>, o)) = Contents(occurrences)

----------------------------------------------------------------------------
(* Lines 88-90 on one file, with each of the two patterns *)

\* Most pieces a text of the matcher harness is made of.
MaxChunks == 4

\* Pieces of text (bytes): "http://", "WWW.", "a.bc", "/x", ".", " ", "?", 0xFF.
Chunks ==
    { <<104, 116, 116, 112, 58, 47, 47>>, <<87, 87, 87, 46>>, <<97, 46, 98, 99>>,
      <<47, 120>>, <<46>>, <<32>>, <<63>>, <<255>> }

Texts == UNION {{Concat(cs) : cs \in [1..n -> Chunks]} : n \in 0..MaxChunks}

RunIdle ==
    /\ input_exists = FALSE /\ dir = <<>> /\ output_file = <<>> /\ use_lenient = FALSE
    /\ pc = "idle" /\ order = <<>> /\ listing = <<>> /\ occurrences = <<>>
    /\ data = <<>> /\ out = NoFile /\ out_opens = 0 /\ diag = <<>> /\ run = 1
    /\ history = <<>>

InitMatch ==
    /\ RunIdle
    /\ raw \in Texts
    /\ content = <<>>
    /\ found_strict = <<>>
    /\ found_lenient = <<>>
    /\ mpc = "raw"

\* Lines 88-89: content = f.read()
ReadContent ==
    /\ mpc = "raw"
    /\ content' = ReadText(raw)
    /\ mpc' = "read"
    /\ UNCHANGED <<runVars, raw, found_strict, found_lenient>>

\* Line 90 with regex = URL_REGEX
MatchStrict ==
    /\ mpc = "read"
    /\ found_strict' = FindAll(content, FALSE)
    /\ mpc' = "strict"
    /\ UNCHANGED <<runVars, raw, content, found_lenient>>

\* Line 90 with regex = LENIENT_URL_REGEX
MatchLenient ==
    /\ mpc = "strict"
    /\ found_lenient' = FindAll(content, TRUE)
    /\ mpc' = "matched"
    /\ UNCHANGED <<runVars, raw, content, found_strict>>

NextMatch ==
    \/ ReadContent
    \/ MatchStrict
    \/ MatchLenient

SpecMatch == InitMatch /\ [][NextMatch]_vars

----------------------------------------------------------------------------
(* Properties of the matchers and of the decoding *)

Matched == mpc = "matched"

\* The maximal runs of non-whitespace characters of a text.
Tokens(t) ==
    {SubSeq(t, i, j) : <<i, j>> \in
        {p \in (DOMAIN t) \X (DOMAIN t) :
            /\ p[1] <= p[2]
            /\ \A k \in p[1]..p[2] : ~IsSpace(t[k])
            /\ p[1] = 1 \/ IsSpace(t[p[1] - 1])
            /\ p[2] = Len(t) \/ IsSpace(t[p[2] + 1])}}

\* The string begins with http://, https:// or www. (in any case).
HasExplicitPrefix(u) == StrictSchemeEnd(u, 1) # 0

\* The whole token is: explicit prefix, domain labels, a "." and a final label
\* of 2 to 6 letters, then nothing or a path that begins with "/".
IsExplicitUrl(tok) ==
    /\ HasExplicitPrefix(tok)
    /\ \E q \in DOMAIN tok, e \in 1..(Len(tok) + 1) :
           /\ StrictSchemeEnd(tok, 1) < q
           /\ tok[q] = 46
           /\ \A k \in StrictSchemeEnd(tok, 1)..(q - 1) : IsDomainChar(tok[k])
           /\ e - (q + 1) \in 2..6
           /\ \A k \in (q + 1)..(e - 1) : IsAlpha(tok[k])
           /\ \/ e = Len(tok) + 1
              \/ tok[e] = 47 /\ \A k \in (e + 1)..Len(tok) : IsBodyChar(tok[k])

\* A token neither pattern can match in: no "." and no ":".
IsPlainToken(tok) == \A k \in DOMAIN tok : tok[k] \notin {46, 58}

\* C9 as stated: when every URL either pattern finds carries an explicit
\* http://, https:// or www. prefix (and both find as many), both patterns
\* find the same set.
Claim_C9_SameMatches ==
    (/\ Matched
     /\ Len(found_strict) = Len(found_lenient)
     /\ \A u \in Range(found_strict) \cup Range(found_lenient) : HasExplicitPrefix(u))
        => Range(found_strict) = Range(found_lenient)

\* C9 as amended: both patterns find the same set when every whitespace-
\* delimited token of the text is either free of "." and ":" or is, as a
\* whole, an explicit prefix, a domain ending in a label of 2 to 6 letters,
\* and an optional path beginning with "/".
Thm_C9_SameMatchesOnDomainUrls ==
    (Matched /\ \A tok \in Tokens(content) : IsPlainToken(tok) \/ IsExplicitUrl(tok))
        => Range(found_strict) = Range(found_lenient)

\* Such a text, in which a URL with a path was found.
Wit_C9 ==
    /\ Matched
    /\ \A tok \in Tokens(content) : IsPlainToken(tok) \/ IsExplicitUrl(tok)
    /\ \E i \in DOMAIN found_lenient :
           /\ HasExplicitPrefix(found_lenient[i])
           /\ found_lenient[i][Len(found_lenient[i])] = 120

\* A byte that occurs in no UTF-8 sequence.
InvalidByte(b) == b \in {192, 193} \/ b \in 245..255

IsAsciiByte(b) == b < 128

IsSubstring(u, t) ==
    \E i \in 1..(Len(t) + 1) : i + Len(u) - 1 <= Len(t) /\ SubSeq(t, i, i + Len(u) - 1) = u

\* C10 as stated: each malformed byte becomes one U+FFFD in the text given to
\* the matcher, so every matched URL is a run of bytes of the file.
Claim_C10_MalformedReplaced ==
    Matched =>
        /\ Cardinality({i \in DOMAIN content : content[i] = 65533})
               = Cardinality({i \in DOMAIN raw : InvalidByte(raw[i])})
        /\ \A u \in Range(found_strict) \cup Range(found_lenient) :
               IsSubstring(Utf8Encode(u), raw)

\* C10 as amended: the file is read and matched, and each malformed byte is
\* dropped: for a file of ASCII and invalid bytes (no carriage return) the
\* text given to the matcher is the ASCII bytes alone, in order, so the
\* characters around a malformed byte become adjacent.
Thm_C10_MalformedDropped ==
    (mpc # "raw" /\ 13 \notin Range(raw)
         /\ \A i \in DOMAIN raw : IsAsciiByte(raw[i]) \/ InvalidByte(raw[i]))
        => content = SelectSeq(raw, IsAsciiByte)

\* A matched URL that is not a run of bytes of the file: it was joined over
\* a malformed byte.
Wit_C10 ==
    /\ Matched
    /\ \E i \in DOMAIN raw : InvalidByte(raw[i])
    /\ \E u \in Range(found_strict) : ~IsSubstring(u, raw)

====
